---- MODULE Spec2Model ----
(***************************************************************************)
(* Model of the station-data synchronisation of data.py:                   *)
(* update_and_save_station_data loads the CSV cache, drops the rows before *)
(* START_DATE, asks the remote API for the tail of every station that has  *)
(* a missing hour, and, when at least one DataFrame was collected, writes  *)
(* old + new rows sorted by (entityId, time_utc) back to the cache file.   *)
(*                                                                         *)
(* Timestamps are whole hours, modelled as integers.                       *)
(***************************************************************************)
EXTENDS Integers, Sequences, FiniteSets, TLC

\* ---- bounds of the model ------------------------------------------------
MaxTime == 2
MaxInitRows == 1

Stations == {1, 2}
Times == 0..MaxTime

\* availableBikeNumber of a row: a value cached by an earlier sync, and the
\* value the remote source reports now
CachedValues == {0}
RemoteValues == {1}
Values == CachedValues \cup RemoteValues

VARIABLES
    fileExists,      \* os.path.exists(DATA_FILENAME)
    file,            \* rows of DATA_FILENAME, in file order
    pc,              \* position in update_and_save_station_data
    STATION_IDS,     \* argument: list of station ids
    START_DATE,      \* argument
    END_DATE,        \* argument
    old_data_temp,   \* loaded cache after pruning
    i,               \* index of the station the for loop is at
    dataframes,      \* list of DataFrames collected by the loop
    remote,          \* what the remote API holds for each station, once asked
    raised,          \* an exception left update_and_save_station_data
    wrote,           \* to_csv was called in this run
    requests,        \* log of the calls of fetch_station_data in this run
    outcomes,        \* log: what happened to each entry of STATION_IDS
    disk0,           \* the cache file as it was when this run started
    second           \* this run repeats the previous one

vars == <<fileExists, file, pc, STATION_IDS, START_DATE, END_DATE,
          old_data_temp, i, dataframes, remote, raised, wrote, requests,
          outcomes, disk0, second>>

\* ---- helpers --------------------------------------------------------------
Range(s) == {s[k] : k \in 1..Len(s)}

Min(S) == CHOOSE x \in S : \A y \in S : x <= y

\* the sequence of the elements of the set of integers S, ascending
RECURSIVE Ascending(_)
Ascending(S) ==
    IF S = {} THEN <<>> ELSE <<Min(S)>> \o Ascending(S \ {Min(S)})

RECURSIVE Concat(_)
Concat(ss) == IF ss = <<>> THEN <<>> ELSE Head(ss) \o Concat(Tail(ss))

\* a row of the cache file
Row(e, t, v) == [entityId |-> e, time_utc |-> t, val |-> v]

Rows == {Row(e, t, v) : e \in Stations, t \in Times, v \in CachedValues}

\* (entityId, time_utc) of a is before or equal to that of b
KeyLeq(a, b) ==
    \/ a.entityId < b.entityId
    \/ a.entityId = b.entityId /\ a.time_utc <= b.time_utc

IsSorted(s) == \A k \in 1..(Len(s) - 1) : KeyLeq(s[k], s[k + 1])

\* ---- the remote API -------------------------------------------------------
Unknown == [status |-> "unknown"]

\* what the API answers for one station: an HTTP failure, a network error, a
\* JSON document without the required keys, or a document with the readings
\* it holds (hours), whose entityId carries the KielRegion:<digits> pattern
\* (match) or not. The answer to a request covers hours of from_date..to_date.
Answers(from_date, to_date) ==
    {[status |-> s] : s \in {"non200", "exception", "badshape"}}
    \cup [status : {"ok"}, match : {TRUE}, hours : SUBSET (from_date..to_date),
          val : RemoteValues]
    \cup [status : {"ok"}, match : {FALSE}, hours : {{}, from_date..to_date},
          val : RemoteValues]

\* ---- data.py ----------------------------------------------------------------
\* entity_id_number of create_dataframe_from_api_data: the digits after
\* KielRegion:, or the empty string
entity_id_number(station_id, answer) ==
    IF answer.match THEN ToString(station_id) ELSE ""

\* create_dataframe_from_api_data for the answer to a request from_date..to_date
create_dataframe_from_api_data(station_id, answer, from_date, to_date) ==
    LET index == Ascending({h \in answer.hours : from_date <= h /\ h <= to_date})
    IN  [k \in 1..Len(index) |->
            Row(entity_id_number(station_id, answer), index[k], answer.val)]

\* the filter with > in place of >=
PruneBefore_strict(rows, start) ==
    SelectSeq(rows, LAMBDA r : r.time_utc > start)

\* old_data_temp[old_data_temp['time_utc'] >= START_DATE]
PruneBefore(rows, start) ==
    SelectSeq(rows, LAMBDA r : r.time_utc >= start)

\* the cache as loaded: empty when the file does not exist
LoadCache(exists, rows, start) ==
    IF exists THEN PruneBefore(rows, start) ELSE <<>>

\* pd.date_range(START_DATE, END_DATE - 1h, freq='h')
full_date_range(start, end) == start..(end - 1)

\* the available dates taken from the whole cache, not from the station's rows
missing_dates_anyStation(old, station_id, start, end) ==
    full_date_range(start, end) \ {old[k].time_utc : k \in 1..Len(old)}

\* full_date_range[~full_date_range.isin(available_dates)] for one station
missing_dates(old, station_id, start, end) ==
    LET available_dates ==
            {old[k].time_utc : k \in {j \in 1..Len(old) : old[j].entityId = station_id}}
    IN  full_date_range(start, end) \ available_dates

\* astype('int64') of the entityId column fails on the empty string
AstypeFails(rows) == \E k \in 1..Len(rows) : rows[k].entityId = ""

ParseInt(str) == CHOOSE s \in Stations : ToString(s) = str

AstypeInt(rows) ==
    [k \in 1..Len(rows) |->
        Row(ParseInt(rows[k].entityId), rows[k].time_utc, rows[k].val)]

\* insert r behind every row of the sorted s whose key is not greater
RECURSIVE InsertStable(_, _)
InsertStable(s, r) ==
    IF s = <<>> THEN <<r>>
    ELSE IF KeyLeq(Head(s), r) THEN <<Head(s)>> \o InsertStable(Tail(s), r)
    ELSE <<r>> \o s

RECURSIVE SortFrom(_, _)
SortFrom(acc, s) ==
    IF s = <<>> THEN acc ELSE SortFrom(InsertStable(acc, Head(s)), Tail(s))

\* the rows left in the order of the concatenation
sort_values_none(s) == s

\* sort_values(by=['entityId', 'time_utc']): stable, ascending
sort_values(s) == SortFrom(<<>>, s)

\* the file rewritten from the new rows alone
combined_data_temp_newOnly(old, new) == sort_values(new)

\* pd.concat([old_data_temp, new_data_temp]), sorted, index reset
combined_data_temp(old, new) == sort_values(old \o new)

\* ---- initial state --------------------------------------------------------
SortedFiles ==
    {s \in UNION {[1..n -> Rows] : n \in 0..MaxInitRows} : IsSorted(s)}

\* the station lists tried: one or two entries, repeats included
StationLists == UNION {[1..n -> Stations] : n \in {1, 2}}

Init ==
    /\ fileExists \in BOOLEAN
    /\ file \in SortedFiles
    /\ (~fileExists => file = <<>>)
    /\ pc = "idle"
    /\ STATION_IDS = <<>>
    /\ START_DATE = 0
    /\ END_DATE = 0
    /\ old_data_temp = <<>>
    /\ i = 1
    /\ dataframes = <<>>
    /\ remote = [s \in Stations |-> Unknown]
    /\ raised = FALSE
    /\ wrote = FALSE
    /\ requests = <<>>
    /\ outcomes = <<>>
    /\ disk0 = [exists |-> fileExists, rows |-> file]
    /\ second = FALSE

\* ---- actions ----------------------------------------------------------------
\* lines 203-218: load and prune the cache, start the loop
Load(ids, start, end) ==
    /\ STATION_IDS' = ids
    /\ START_DATE' = start
    /\ END_DATE' = end
    /\ old_data_temp' = LoadCache(fileExists, file, start)
    /\ i' = 1
    /\ dataframes' = <<>>
    /\ raised' = FALSE
    /\ wrote' = FALSE
    /\ requests' = <<>>
    /\ outcomes' = <<>>
    /\ disk0' = [exists |-> fileExists, rows |-> file]
    /\ pc' = "loop"
    /\ UNCHANGED <<fileExists, file, remote>>

\* a call of update_and_save_station_data
StartSync ==
    /\ pc = "idle"
    /\ \E ids \in StationLists, start \in Times, end \in Times :
          Load(ids, start, end)
    /\ second' = FALSE

\* the same call again, while the remote source holds the same data
Rerun ==
    /\ pc = "done"
    /\ ~second
    /\ Load(STATION_IDS, START_DATE, END_DATE)
    /\ second' = TRUE

InLoop == pc = "loop" /\ i <= Len(STATION_IDS)

Missing == missing_dates(old_data_temp, STATION_IDS[i], START_DATE, END_DATE)

\* a failed fetch ends the run instead of going on with the next station
NextStation_abort(outcome) ==
    /\ i' = i + 1
    /\ outcomes' = Append(outcomes, outcome)
    /\ pc' = IF outcome \in {"non200", "exception", "badshape"} THEN "done" ELSE pc
    /\ raised' = (outcome \in {"non200", "exception", "badshape"})
    /\ UNCHANGED <<fileExists, file, STATION_IDS, START_DATE, END_DATE,
                   old_data_temp, wrote, disk0, second>>

\* the loop goes on with the next entry of STATION_IDS
NextStation(outcome) ==
    /\ i' = i + 1
    /\ outcomes' = Append(outcomes, outcome)
    /\ UNCHANGED <<fileExists, file, pc, STATION_IDS, START_DATE, END_DATE,
                   old_data_temp, raised, wrote, disk0, second>>

\* line 233: no missing hour, the station is skipped
StationSkip ==
    /\ InLoop
    /\ Missing = {}
    /\ NextStation("skip")
    /\ UNCHANGED <<dataframes, remote, requests>>

\* lines 234-237: fetch_station_data(station_id, missing_dates[0], END_DATE)
\* is answered by the remote source with answer
Fetch(answer) ==
    /\ InLoop
    /\ Missing # {}
    /\ answer \in Answers(Min(Missing), END_DATE)
    /\ remote[STATION_IDS[i]] \in {Unknown, answer}
    /\ remote' = [remote EXCEPT ![STATION_IDS[i]] = answer]
    /\ requests' = Append(requests, [station |-> STATION_IDS[i],
                                     from |-> Min(Missing),
                                     to |-> END_DATE])

\* lines 110-112, 238: status code is not 200, data is None
FetchNon200 ==
    /\ Fetch([status |-> "non200"])
    /\ NextStation("non200")
    /\ UNCHANGED dataframes

\* lines 105, 242-244: requests.get raises, caught by the loop
FetchException ==
    /\ Fetch([status |-> "exception"])
    /\ NextStation("exception")
    /\ UNCHANGED dataframes

\* lines 135-136, 242-244: a required key is missing, ValueError is caught
FetchBadShape ==
    /\ Fetch([status |-> "badshape"])
    /\ NextStation("badshape")
    /\ UNCHANGED dataframes

\* lines 238-241: the answer is parsed and appended
FetchOk ==
    /\ InLoop
    /\ Missing # {}
    /\ \E answer \in Answers(Min(Missing), END_DATE) :
          /\ answer.status = "ok"
          /\ Fetch(answer)
          /\ dataframes' = Append(dataframes,
                 create_dataframe_from_api_data(STATION_IDS[i], answer,
                                                Min(Missing), END_DATE))
          /\ NextStation("ok")

AfterLoop == pc = "loop" /\ i > Len(STATION_IDS)

Finish ==
    /\ pc' = "done"
    /\ UNCHANGED <<STATION_IDS, START_DATE, END_DATE, old_data_temp, i,
                   dataframes, remote, requests, outcomes, disk0, second>>

\* lines 246-258: merge, sort and write
MergeWrite ==
    /\ AfterLoop
    /\ dataframes # <<>>
    /\ ~AstypeFails(Concat(dataframes))
    /\ file' = combined_data_temp(old_data_temp, AstypeInt(Concat(dataframes)))
    /\ fileExists' = TRUE
    /\ wrote' = TRUE
    /\ UNCHANGED raised
    /\ Finish

\* line 250: astype('int64') raises ValueError outside of any try
MergeRaise ==
    /\ AfterLoop
    /\ dataframes # <<>>
    /\ AstypeFails(Concat(dataframes))
    /\ raised' = TRUE
    /\ UNCHANGED <<fileExists, file, wrote>>
    /\ Finish

\* lines 266-267: no DataFrame was collected, nothing is written
NoNewData ==
    /\ AfterLoop
    /\ dataframes = <<>>
    /\ UNCHANGED <<fileExists, file, wrote, raised>>
    /\ Finish

Next ==
    \/ StartSync
    \/ Rerun
    \/ StationSkip
    \/ FetchNon200
    \/ FetchException
    \/ FetchBadShape
    \/ FetchOk
    \/ MergeWrite
    \/ MergeRaise
    \/ NoNewData

Spec == Init /\ [][Next]_vars

\* ---- vocabulary of the properties ------------------------------------------
Done == pc = "done"

Written == pc = "done" /\ wrote

\* number of rows of rows with the key (e, t)
CountKey(rows, e, t) ==
    Cardinality({k \in 1..Len(rows) :
                    rows[k].entityId = e /\ rows[k].time_utc = t})

\* the rows the loop collected, in the order collected
Fetched == Concat(dataframes)

\* the window [START_DATE, END_DATE)
Window == {h \in Times : START_DATE <= h /\ h < END_DATE}

\* the station of a collected row whose entityId carries digits
StationOf(str) == CHOOSE e \in Stations : ToString(e) = str

TypeOK ==
    /\ pc \in {"idle", "loop", "done"}
    /\ fileExists \in BOOLEAN
    /\ second \in BOOLEAN
    /\ raised \in BOOLEAN
    /\ wrote \in BOOLEAN
    /\ i \in 1..(Len(STATION_IDS) + 1)
    /\ \A k \in 1..Len(file) :
          /\ file[k].entityId \in Stations
          /\ file[k].time_utc \in Times
          /\ file[k].val \in Values

\* ---- C1 ---------------------------------------------------------------------
\* C1: after a sync that wrote the cache file, the file holds at most one row
\* per (entityId, time_utc).
C1_NoDuplicateRows ==
    Written =>
        \A e \in Stations, t \in Times : CountKey(file, e, t) <= 1

\* ---- C2 ---------------------------------------------------------------------
\* C2: a second run with the same arguments, against a remote source that holds
\* the same data, leaves the cache file as the first run left it.
C2_Idempotent ==
    (Done /\ second) =>
        /\ fileExists = disk0.exists
        /\ file = disk0.rows

\* ---- C3 ---------------------------------------------------------------------
\* C3: when a cached hour of a station was fetched again, the written file holds
\* for that station and hour exactly one row, with the fetched value.
C3_RefetchOverwrites ==
    Written =>
        \A k \in 1..Len(Fetched) :
            LET e == StationOf(Fetched[k].entityId)
                t == Fetched[k].time_utc
            IN  CountKey(old_data_temp, e, t) > 0 =>
                    /\ CountKey(file, e, t) = 1
                    /\ \A j \in 1..Len(file) :
                          (file[j].entityId = e /\ file[j].time_utc = t)
                              => file[j].val = Fetched[k].val

\* ---- C4 ---------------------------------------------------------------------
\* C4: after a sync that wrote the cache file, consecutive rows of the file are
\* in non-decreasing order of (entityId, time_utc).
C4_SortedAfterWrite ==
    Written =>
        \A k \in 1..(Len(file) - 1) :
            \/ file[k].entityId < file[k + 1].entityId
            \/ /\ file[k].entityId = file[k + 1].entityId
               /\ file[k].time_utc <= file[k + 1].time_utc

\* a write whose rows had to be reordered: a fetched row went before a cached one
C4_Witness ==
    /\ Written
    /\ old_data_temp # <<>>
    /\ Fetched # <<>>
    /\ file # old_data_temp \o AstypeInt(Fetched)

\* ---- C5 ---------------------------------------------------------------------
\* C5: a listed station with no cached row in the window, for which the remote
\* source returns a reading for every hour of the window, has after the sync
\* exactly END_DATE - START_DATE rows in the window.
C5_GapCoverage ==
    Done =>
        \A e \in Range(STATION_IDS) :
            ( /\ Window # {}
              /\ \A h \in Window : CountKey(disk0.rows, e, h) = 0
              /\ remote[e].status = "ok"
              /\ remote[e].match
              /\ Window \subseteq remote[e].hours )
            => Cardinality({k \in 1..Len(file) :
                   file[k].entityId = e /\ file[k].time_utc \in Window})
                 = END_DATE - START_DATE

\* ---- C6 ---------------------------------------------------------------------
FailureKinds == {"non200", "exception", "badshape"}

SomeFailure == \E k \in 1..Len(outcomes) : outcomes[k] \in FailureKinds

C7_NoErrorEscapes == ~raised

\* ---- C8 ---------------------------------------------------------------------
\* C8: a run that collected no reading leaves the cache file as it was and
\* does not write it.
C8_NoReadingsNoWrite ==
    (Done /\ Fetched = <<>>) =>
        /\ ~wrote
        /\ fileExists = disk0.exists
        /\ file = disk0.rows

\* ---- C9 ---------------------------------------------------------------------
\* C9: the loaded cache is the rows of the file with time_utc >= START_DATE; a
\* written file holds no row of the earlier file with time_utc < START_DATE,
\* and holds every row of the earlier file with time_utc >= START_DATE.
C9_Pruning ==
    /\ (pc # "idle" /\ disk0.exists) =>
          /\ \A k \in 1..Len(old_data_temp) :
                old_data_temp[k].time_utc >= START_DATE
          /\ \A k \in 1..Len(disk0.rows) :
                disk0.rows[k].time_utc >= START_DATE
                    => disk0.rows[k] \in Range(old_data_temp)
    /\ Written =>
          \A k \in 1..Len(disk0.rows) :
              IF disk0.rows[k].time_utc < START_DATE
              THEN disk0.rows[k] \notin Range(file)
              ELSE disk0.rows[k] \in Range(file)

\* a write that dropped a row before START_DATE
C9_Witness ==
    /\ Written
    /\ \E k \in 1..Len(disk0.rows) : disk0.rows[k].time_utc < START_DATE

\* ---- C10 --------------------------------------------------------------------
\* the hours of the window for which the file, as the run found it, has no row
\* of station e
MissingOnDisk(e) == {h \in Window : CountKey(disk0.rows, e, h) = 0}

\* the calls of the fetcher due for the first n entries of STATION_IDS
RECURSIVE ExpectedRequests(_)
ExpectedRequests(n) ==
    IF n = 0 THEN <<>>
    ELSE ExpectedRequests(n - 1) \o
         ( IF MissingOnDisk(STATION_IDS[n]) = {} THEN <<>>
           ELSE <<[station |-> STATION_IDS[n],
                   from |-> Min(MissingOnDisk(STATION_IDS[n])),
                   to |-> END_DATE]>> )

\* C10: the fetcher is called for the entries of STATION_IDS in order, once for
\* every entry with a missing hour, from the earliest missing hour to END_DATE,
\* and not at all for an entry without a missing hour.
C10_FetchProtocol ==
    /\ pc # "idle" => requests = ExpectedRequests(i - 1)
    /\ Done => requests = ExpectedRequests(Len(STATION_IDS))

\* a station listed twice was fetched twice with the same range, which starts
\* behind a cached hour
C10_Witness ==
    /\ Done
    /\ Len(STATION_IDS) = 2
    /\ STATION_IDS[1] = STATION_IDS[2]
    /\ Len(requests) = 2
    /\ requests[1] = requests[2]
    /\ requests[1].from > START_DATE

\* ---- C11 --------------------------------------------------------------------
\* the stations of STATION_IDS whose fetch returned a response with status 200
\* and the required keys in this run
Answered == {STATION_IDS[k] : k \in {j \in 1..Len(outcomes) : outcomes[j] = "ok"}}

\* C11: after a sync, every station whose fetch returned a response has a row
\* in the cache file for every hour of [START_DATE, END_DATE), whatever hours
\* the response holds.
C11_NoMissingHours ==
    Done =>
        \A e \in Answered : \A h \in Window : CountKey(file, e, h) > 0

\* ---- C12 --------------------------------------------------------------------
\* number of rows of rows equal to r
CountRow(rows, r) == Cardinality({k \in 1..Len(rows) : rows[k] = r})

\* C12: every row the cache file held before the sync with time_utc >=
\* START_DATE is in the file after the sync, with its value, as often as
\* before, whether the run wrote the file or not.
C12_InWindowRowsKept ==
    Done =>
        \A k \in 1..Len(disk0.rows) :
            disk0.rows[k].time_utc >= START_DATE =>
                CountRow(file, disk0.rows[k]) >= CountRow(disk0.rows, disk0.rows[k])

\* a write that kept the row of a station that is not in STATION_IDS
C12_Witness ==
    /\ Written
    /\ \E k \in 1..Len(disk0.rows) :
          /\ disk0.rows[k].time_utc >= START_DATE
          /\ disk0.rows[k].entityId \notin Range(STATION_IDS)
          /\ disk0.rows[k] \in Range(file)
    /\ Len(file) > Len(disk0.rows)
====
